---- MODULE Spec2Model ----
(***************************************************************************)
(* Model of cloudflare-mail-manager: the delete, create and list commands  *)
(* of src/command.rs, the free-text parsing of src/cloudflare_api.rs and   *)
(* the rendering of routing actions.                                       *)
(*                                                                         *)
(* A Rust String is a sequence of one-character strings.  An Option<T> is  *)
(* a sequence of length 0 (None) or 1 (Some).  One run of the model is one *)
(* invocation of the program: a command runs from "idle" to "done",        *)
(* suspending at each provider call; the provider's answer is the input of *)
(* the step that resumes it.                                               *)
(***************************************************************************)
EXTENDS Integers, Sequences, FiniteSets, TLC

VARIABLES
    pc,               \* position of the command: the provider call awaited
    cmd,              \* "none", "delete", "create" or "list"
    rule_identifier,  \* delete: the user's fragment
    matcher_arg,      \* create: Option<EmailRoutingRuleMatcher> from the CLI
    action_arg,       \* create: Option<EmailRoutingRuleAction> from the CLI
    name,             \* create: Option<String>
    priority,         \* create: Option<usize>
    zone,             \* Option<Zone> selected by select_first_zone
    action,           \* create: Option of the resolved action
    random_username,  \* create: Option of the generated local part
    matched_rules,    \* delete: the rules kept by the filter
    calls,            \* provider calls issued so far, in order
    responses,        \* provider answers received so far, in order
    output,           \* lines printed so far (message tags)
    result,           \* "running", "ok" (Ok(())) or "err" (bail!/?)
    error,            \* which error ended the command, "" if none
    rt,               \* render/parse round trip of one action (SpecRoundTrip)
    shown_rules       \* list: the rules in the order they are printed

vars == <<pc, cmd, rule_identifier, matcher_arg, action_arg, name, priority,
          zone, action, random_username, matched_rules, calls, responses,
          output, result, error, rt, shown_rules>>

----------------------------------------------------------------------------
(* Bounds of the model *)

MaxZones == 2       \* zones in a ListZones result
MaxRules == 2       \* rules in a ListRules result
MaxAddresses == 2   \* addresses in a ListDestinationAddresses result
MaxDestLen == 4     \* characters of a Forward destination in the round trip
UsernameLen == 2    \* characters of the random local part (16 in the source)

----------------------------------------------------------------------------
(* Strings *)

\* all strings over the characters cs of length at most n
RECURSIVE StringsUpTo(_, _)
StringsUpTo(cs, n) ==
    IF n = 0 THEN {<<>>}
    ELSE LET shorter == StringsUpTo(cs, n - 1)
         IN  shorter \cup {Append(s, c) : s \in shorter, c \in cs}

\* all sequences over the set S of length at most n
RECURSIVE SeqsUpTo(_, _)
SeqsUpTo(S, n) ==
    IF n = 0 THEN {<<>>}
    ELSE LET shorter == SeqsUpTo(S, n - 1)
         IN  shorter \cup {Append(s, e) : s \in shorter, e \in S}

\* char::to_lowercase on the characters of the model
lower_char(c) ==
    CASE c = "A" -> "a"
      [] c = "B" -> "b"
      [] c = "D" -> "d"
      [] c = "R" -> "r"
      [] c = "X" -> "x"
      [] OTHER -> c

\* str::to_lowercase
to_lowercase(s) == [i \in 1..Len(s) |-> lower_char(s[i])]

\* str::contains
contains(hay, needle) ==
    \E i \in 0..(Len(hay) - Len(needle)) :
        SubSeq(hay, i + 1, i + Len(needle)) = needle

\* [String]::join
RECURSIVE join(_, _)
join(strs, sep) ==
    IF Len(strs) = 0 THEN <<>>
    ELSE IF Len(strs) = 1 THEN strs[1]
    ELSE strs[1] \o sep \o join(Tail(strs), sep)

----------------------------------------------------------------------------
(* Domain model: src/cloudflare_api.rs *)

Drop == [type |-> "drop", value |-> <<>>]
Forward(value) == [type |-> "forward", value |-> value]
Worker(value) == [type |-> "worker", value |-> value]

All == [type |-> "all", value |-> <<>>]
Literal(value) == [type |-> "literal", value |-> value]

\* impl FromStr for EmailRoutingRuleAction, only "drop" in lower case is Drop
FromStrActionLax(s) ==
    IF to_lowercase(s) = <<"d", "r", "o", "p">> THEN Drop ELSE Forward(<<s>>)

\* impl FromStr for EmailRoutingRuleAction
FromStrAction(s) ==
    IF s = <<"d", "r", "o", "p">> THEN Drop ELSE Forward(<<s>>)

\* impl FromStr for EmailRoutingRuleMatcher
FromStrMatcher(s) ==
    IF s = <<"*">> THEN All ELSE Literal(s)

\* impl Display for EmailRoutingRuleAction
DisplayAction(a) ==
    CASE a.type = "drop" -> <<"D", "r", "o", "p">>
      [] a.type = "forward" ->
            <<"F", "o", "r", "w", "a", "r", "d", " ", "t", "o", " ">>
                \o join(a.value, <<",", " ">>)
      [] a.type = "worker" ->
            <<"W", "o", "r", "k", "e", "r", " ", "(">>
                \o join(a.value, <<",", " ">>) \o <<")">>

----------------------------------------------------------------------------
(* What the provider can answer, and what the user can type *)

Zone1 == [id |-> "z1", account |-> [id |-> "acc1", name |-> "one"]]
Zone2 == [id |-> "z2", account |-> [id |-> "acc2", name |-> "two"]]
ZoneUniverse == {Zone1, Zone2}

RuleIds == {<<"r", "1">>, <<"R", "2">>}
MatcherUniverse ==
    {All, Literal(<<"a", "@", "x">>), Literal(<<"B", "@", "X">>)}
\* the matchers of one rule: none, one, or a catch-all next to a literal
MatcherLists ==
    {<<>>} \cup {<<m>> : m \in MatcherUniverse}
           \cup {<<All, Literal(<<"a", "@", "x">>)>>}
RuleUniverse == [id : RuleIds, matchers : MatcherLists]

\* what the user types after "delete": nothing, parts of an address in either
\* case, parts of an id in either case, a whole id, no part of anything
Fragments ==
    {<<>>, <<"a", "@">>, <<"@", "x">>, <<"X">>, <<"b">>, <<"r">>, <<"2">>,
     <<"R", "2">>, <<"z", "z">>}

\* a call that failed in transport or in parsing the body: send() returns Err
TransportError == [err |-> TRUE, success |-> FALSE, result |-> <<>>]

\* Response<R> with result: Option<R>
Answer(success, res) == [err |-> FALSE, success |-> success, result |-> res]

OptionOf(S) == {<<>>} \cup {<<e>> : e \in S}

ZonesResponses ==
    {TransportError} \cup
    {Answer(r # <<>>, r) : r \in OptionOf(SeqsUpTo(ZoneUniverse, MaxZones))}

RulesResponses ==
    {TransportError} \cup
    {Answer(r # <<>>, r) : r \in OptionOf(SeqsUpTo(RuleUniverse, MaxRules))}

DeleteResponses ==
    {TransportError} \cup
    {Answer(s, r) : s \in BOOLEAN,
                    r \in OptionOf({[id |-> <<"r", "1">>, matchers |-> <<>>]})}

MatcherTexts == {<<"*">>, <<"b", "o", "b">>, <<"b", "@", "o">>}
ActionTexts == {<<"d", "r", "o", "p">>, <<"D", "r", "o", "p">>,
                <<"x", "@", "y">>}
Names == {<<"n">>}
Priorities == {5}

Emails == {<<"u", "@", "m">>, <<"v", "@", "m">>}
AddressUniverse == [email : OptionOf(Emails)]

Domains == {<<"x", ".", "c">>, <<"y", ".", "c">>}

AddressesResponses ==
    {TransportError} \cup
    {Answer(r # <<>>, r) :
        r \in OptionOf(SeqsUpTo(AddressUniverse, MaxAddresses))}

SettingsResponses ==
    {TransportError} \cup
    {Answer(r # <<>>, r) : r \in OptionOf([name : Domains])}

CreateResponses ==
    {TransportError} \cup
    {Answer(r # <<>>, r) :
        r \in OptionOf({[id |-> <<"r", "1">>, matchers |-> <<>>]})}

\* the alphabet of the random local part, cut down from a-z, 0-9
UsernameAlphabet == <<"a", "b", "c", "0", "1">>

\* the provider calls of impl Client
ListZones == [op |-> "ListZones", target |-> "", arg |-> <<>>]
ListRules(zone_id) == [op |-> "ListRules", target |-> zone_id, arg |-> <<>>]
DeleteRule(zone_id, rule_id) ==
    [op |-> "DeleteRule", target |-> zone_id, arg |-> rule_id]

----------------------------------------------------------------------------
(* State after construction: the program was started, no command ran *)

RtOff == [stage |-> "off", a |-> Drop, text |-> <<>>, parsed |-> Drop,
          text2 |-> <<>>]

Init ==
    /\ pc = "idle"
    /\ cmd = "none"
    /\ rule_identifier = <<>>
    /\ matcher_arg = <<>>
    /\ action_arg = <<>>
    /\ name = <<>>
    /\ priority = <<>>
    /\ zone = <<>>
    /\ action = <<>>
    /\ random_username = <<>>
    /\ matched_rules = <<>>
    /\ calls = <<>>
    /\ responses = <<>>
    /\ output = <<>>
    /\ result = "running"
    /\ error = ""
    /\ rt = RtOff
    /\ shown_rules = <<>>

inputs == <<cmd, rule_identifier, matcher_arg, action_arg, name, priority>>
create_locals == <<action, random_username>>

\* zones.pop() taken from the wrong end
pop_first(list) == list[1]

\* zones.pop(): the last element of the list
pop(list) == list[Len(list)]

\* result.map(|mut zones| zones.pop()).flatten()
popped(res) ==
    IF res = <<>> THEN <<>>
    ELSE IF res[1] = <<>> THEN <<>>
    ELSE <<pop(res[1])>>

----------------------------------------------------------------------------
(* The delete command: handle_delete_rule *)

\* a failed load_config: "No config found. Please run the setup command first."
create_cf_client_from_config_fails ==
    /\ pc = "idle"
    /\ \E c \in {"delete", "create", "list"} : cmd' = c
    /\ pc' = "done"
    /\ result' = "err"
    /\ error' = "NoConfigFound"
    /\ UNCHANGED <<rule_identifier, matcher_arg, action_arg, name, priority,
                   zone, create_locals, matched_rules, calls, responses,
                   output, rt,
                   shown_rules>>

\* handle_delete_rule up to the first await: list_zones is sent
handle_delete_rule ==
    /\ pc = "idle"
    /\ \E fragment \in Fragments : rule_identifier' = fragment
    /\ cmd' = "delete"
    /\ calls' = Append(calls, ListZones)
    /\ pc' = "zones"
    /\ UNCHANGED <<matcher_arg, action_arg, name, priority, zone,
                   create_locals, matched_rules, responses, output, result,
                   error, rt,
                   shown_rules>>

\* string_kinda_matches dropping the case folding
string_kinda_matches_exact(input, other) == contains(other, input)

\* fn string_kinda_matches(input, other)
string_kinda_matches(input, other) ==
    contains(to_lowercase(other), to_lowercase(input))

\* the closure of the filter over rules
rule_matches(fragment, rule) ==
    \/ string_kinda_matches(fragment, rule.id)
    \/ \E m \in 1..Len(rule.matchers) :
          /\ rule.matchers[m].type = "literal"
          /\ string_kinda_matches(fragment, rule.matchers[m].value)

\* the slice patterns turned into "any match will do"
delete_outcome_first(matched) ==
    IF Len(matched) = 0 THEN "NotFound" ELSE "Unique"

\* match matched_rules.as_slice(): [] / [rule] / rules
delete_outcome(matched) ==
    CASE Len(matched) = 0 -> "NotFound"
      [] Len(matched) = 1 -> "Unique"
      [] OTHER -> "Ambiguous"

\* the fragment sent in place of the id of the rule found
resolved_identifier_fragment(fragment, matched) == fragment

\* [rule] => rule.id.clone()
resolved_identifier(fragment, matched) == matched[1].id

\* the fragment normalised before it is used as an id
assumed_identifier_lower(fragment) == to_lowercase(fragment)

\* None => rule_identifier
assumed_identifier(fragment) == fragment

\* the error printed and swallowed: the command ends with Ok(())
FailSwallowed(e) ==
    /\ pc' = "done"
    /\ result' = "ok"
    /\ error' = e

\* the command ends with an error
Fail(e) ==
    /\ pc' = "done"
    /\ result' = "err"
    /\ error' = e

\* the early return turned into an error
SucceedAsError ==
    /\ pc' = "done"
    /\ result' = "err"
    /\ error' = "Reported"

\* the command ends with Ok(())
Succeed ==
    /\ pc' = "done"
    /\ result' = "ok"
    /\ error' = ""

\* the answer to list_email_routing_rules arrives in handle_delete_rule
handle_delete_rule_rules ==
    /\ pc = "rules"
    /\ cmd = "delete"
    /\ \E resp \in RulesResponses :
        /\ responses' = Append(responses, resp)
        /\ \/ /\ resp.err
              /\ Fail("Transport")
              /\ UNCHANGED <<matched_rules, calls, output>>
           \/ /\ ~resp.err
              /\ resp.result = <<>>
              /\ output' = Append(output, "FetchFailedAssumingRuleId")
              /\ calls' = Append(calls,
                    DeleteRule(zone[1].id, assumed_identifier(rule_identifier)))
              /\ pc' = "delete"
              /\ UNCHANGED <<matched_rules, result, error>>
           \/ /\ ~resp.err
              /\ resp.result # <<>>
              /\ LET rules == resp.result[1]
                     matched == SelectSeq(rules,
                                   LAMBDA r : rule_matches(rule_identifier, r))
                 IN  /\ matched_rules' = matched
                     /\ \/ /\ delete_outcome(matched) = "NotFound"
                           /\ output' = output \o
                                  <<"NoRulesFound", "AvailableRules">>
                           /\ Succeed
                           /\ UNCHANGED calls
                        \/ /\ delete_outcome(matched) = "Unique"
                           /\ output' = Append(output, "FoundRule")
                           /\ calls' = Append(calls,
                                  DeleteRule(zone[1].id,
                                      resolved_identifier(rule_identifier,
                                                          matched)))
                           /\ pc' = "delete"
                           /\ UNCHANGED <<result, error>>
                        \/ /\ delete_outcome(matched) = "Ambiguous"
                           /\ output' = output \o
                                  <<"MultipleRulesFound", "SpecifyUnique">>
                           /\ Succeed
                           /\ UNCHANGED calls
    /\ UNCHANGED <<inputs, zone, create_locals, rt,
                   shown_rules>>

\* the provider's success flag read as "a result came back"
delete_succeeded_by_result(resp) == resp.result # <<>>

\* if response.success
delete_succeeded(resp) == resp.success

\* the answer to delete_routing_rule arrives
handle_delete_rule_deleted ==
    /\ pc = "delete"
    /\ \E resp \in DeleteResponses :
        /\ responses' = Append(responses, resp)
        /\ \/ /\ resp.err
              /\ Fail("Transport")
              /\ UNCHANGED output
           \/ /\ ~resp.err
              /\ delete_succeeded(resp)
              /\ output' = Append(output, "RuleDeletedSuccessfully")
              /\ Succeed
           \/ /\ ~resp.err
              /\ ~delete_succeeded(resp)
              /\ Fail("FailedToDeleteRule")
              /\ UNCHANGED output
    /\ UNCHANGED <<inputs, zone, create_locals, matched_rules, calls, rt,
                   shown_rules>>

----------------------------------------------------------------------------
(* The create command: handle_create_rule *)

ListDestinationAddresses(account_id) ==
    [op |-> "ListDestinationAddresses", target |-> account_id, arg |-> <<>>]
GetRoutingSettings(zone_id) ==
    [op |-> "GetRoutingSettings", target |-> zone_id, arg |-> <<>>]
CreateRule(zone_id, rule) ==
    [op |-> "CreateRule", target |-> zone_id, arg |-> rule]

\* CreateRoutingRuleRequest built at the end of handle_create_rule
CreateRoutingRuleRequest(act, m) ==
    [actions |-> <<act>>, matchers |-> <<m>>, enabled |-> <<>>,
     name |-> name, priority |-> priority]

\* handle_create_rule up to the first await: the CLI texts are parsed by
\* FromStr and list_zones is sent
handle_create_rule ==
    /\ pc = "idle"
    /\ \E mt \in OptionOf(MatcherTexts) :
          matcher_arg' = IF mt = <<>> THEN <<>> ELSE <<FromStrMatcher(mt[1])>>
    /\ \E at \in OptionOf(ActionTexts) :
          action_arg' = IF at = <<>> THEN <<>> ELSE <<FromStrAction(at[1])>>
    /\ name' \in OptionOf(Names)
    /\ priority' \in OptionOf(Priorities)
    /\ cmd' = "create"
    /\ calls' = Append(calls, ListZones)
    /\ pc' = "zones"
    /\ UNCHANGED <<rule_identifier, zone, create_locals, matched_rules,
                   responses, output, result, error, rt,
                   shown_rules>>

\* every supplied literal is taken for a bare local part
needs_domain_always(m) == m = <<>> \/ m[1].type = "literal"

\* the matcher is absent, or a literal whose value has no "@"
needs_domain(m) ==
    \/ m = <<>>
    \/ /\ m[1].type = "literal"
       /\ ~contains(m[1].value, <<"@">>)

\* the match on matcher once the action act is known: either the matcher is
\* complete and create_routing_rule is sent, or get_email_domain is entered
resolve_matcher(z, act, cs, out) ==
    /\ action' = <<act>>
    /\ IF needs_domain(matcher_arg)
       THEN /\ calls' = Append(cs, GetRoutingSettings(z.id))
            /\ output' = Append(out, "NoDomainSpecified")
            /\ pc' = "settings"
       ELSE /\ calls' = Append(cs,
                   CreateRule(z.id,
                       CreateRoutingRuleRequest(act, matcher_arg[1])))
            /\ output' = out
            /\ pc' = "create"
    /\ UNCHANGED <<random_username, result, error>>

\* select_first_zone resumed by the answer to list_zones, and the command's
\* code up to its next await
select_first_zone ==
    /\ pc = "zones"
    /\ \E resp \in ZonesResponses :
        /\ responses' = Append(responses, resp)
        /\ \/ /\ resp.err
              /\ Fail("Transport")
              /\ UNCHANGED <<zone, create_locals, calls, output>>
           \/ /\ ~resp.err
              /\ popped(resp.result) = <<>>
              /\ Fail("NoZoneFound")
              /\ UNCHANGED <<zone, create_locals, calls, output>>
           \/ /\ ~resp.err
              /\ popped(resp.result) # <<>>
              /\ LET z == popped(resp.result)[1]
                     out == Append(output, "SelectedZone")
                 IN  /\ zone' = <<z>>
                     /\ \/ /\ cmd \in {"delete", "list"}
                           /\ calls' = Append(calls, ListRules(z.id))
                           /\ output' = out
                           /\ pc' = "rules"
                           /\ UNCHANGED <<create_locals, result, error>>
                        \/ /\ cmd = "create"
                           /\ action_arg # <<>>
                           /\ resolve_matcher(z, action_arg[1], calls, out)
                        \/ /\ cmd = "create"
                           /\ action_arg = <<>>
                           /\ calls' = Append(calls,
                                  ListDestinationAddresses(z.account.id))
                           /\ output' = out
                           /\ pc' = "addresses"
                           /\ UNCHANGED <<create_locals, result, error>>
    /\ UNCHANGED <<inputs, matched_rules, rt,
                   shown_rules>>

\* the answer to list_destination_addresses arrives
handle_create_rule_addresses ==
    /\ pc = "addresses"
    /\ \E resp \in AddressesResponses :
        /\ responses' = Append(responses, resp)
        /\ \/ /\ resp.err
              /\ Fail("Transport")
              /\ UNCHANGED <<create_locals, calls, output>>
           \/ /\ ~resp.err
              /\ resp.result = <<>>
              /\ Fail("FailedToListAddresses")
              /\ UNCHANGED <<create_locals, calls, output>>
           \/ /\ ~resp.err
              /\ resp.result # <<>>
              /\ resp.result[1] = <<>>
              /\ Fail("NoAddressesFound")
              /\ UNCHANGED <<create_locals, calls, output>>
           \/ /\ ~resp.err
              /\ resp.result # <<>>
              /\ resp.result[1] # <<>>
              /\ LET address == pop(resp.result[1])
                 IN  \/ /\ address.email = <<>>
                        /\ Fail("AddressHasNoEmail")
                        /\ UNCHANGED <<create_locals, calls, output>>
                     \/ /\ address.email # <<>>
                        /\ resolve_matcher(zone[1],
                               Forward(<<address.email[1]>>), calls, output)
    /\ UNCHANGED <<inputs, zone, matched_rules, rt,
                   shown_rules>>

\* the reservoir after the items past the first amount were offered to it:
\* item number amount + i + 1 replaces slot k when the drawn k, out of
\* 0 .. amount + i, is below amount
RECURSIVE reservoir(_, _, _, _)
reservoir(S, items, i, amount) ==
    IF amount + i + 1 > Len(items) THEN S
    ELSE reservoir({IF k < amount
                    THEN [r EXCEPT ![k + 1] = items[amount + i + 1]]
                    ELSE r : r \in S, k \in 0..(amount + i)},
                   items, i + 1, amount)

\* IteratorRandom::choose_multiple: the results the random draws can give
choose_multiple(items, amount) ==
    IF Len(items) < amount THEN {items}
    ELSE reservoir({SubSeq(items, 1, amount)}, items, 0, amount)

\* format!("{value}@{domain}")
with_domain(local, domain) == local \o <<"@">> \o domain

\* the domain put in front of the local part
with_domain_swapped(local, domain) == domain \o <<"@">> \o local

\* get_email_domain resumed by the answer to get_email_routing_settings, and
\* handle_create_rule up to create_routing_rule
get_email_domain ==
    /\ pc = "settings"
    /\ \E resp \in SettingsResponses :
        /\ responses' = Append(responses, resp)
        /\ \/ /\ resp.err
              /\ Fail("Transport")
              /\ UNCHANGED <<random_username, calls, output>>
           \/ /\ ~resp.err
              /\ resp.result = <<>>
              /\ Fail("FailedToGetSettings")
              /\ UNCHANGED <<random_username, calls, output>>
           \/ /\ ~resp.err
              /\ resp.result # <<>>
              /\ LET domain == resp.result[1].name
                 IN  \/ /\ matcher_arg # <<>>
                        /\ calls' = Append(calls,
                              CreateRule(zone[1].id,
                                CreateRoutingRuleRequest(action[1],
                                  Literal(with_domain(matcher_arg[1].value,
                                                      domain)))))
                        /\ output' = Append(output, "FoundDomain")
                        /\ UNCHANGED random_username
                     \/ /\ matcher_arg = <<>>
                        /\ \E u \in choose_multiple(UsernameAlphabet,
                                                    UsernameLen) :
                              /\ random_username' = <<u>>
                              /\ calls' = Append(calls,
                                    CreateRule(zone[1].id,
                                      CreateRoutingRuleRequest(action[1],
                                        Literal(with_domain(u, domain)))))
                        /\ output' = output \o
                              <<"FoundDomain", "GeneratedRandomUsername">>
              /\ pc' = "create"
              /\ UNCHANGED <<result, error>>
    /\ UNCHANGED <<inputs, zone, action, matched_rules, rt,
                   shown_rules>>

\* the answer to create_routing_rule arrives
handle_create_rule_created ==
    /\ pc = "create"
    /\ \E resp \in CreateResponses :
        /\ responses' = Append(responses, resp)
        /\ \/ /\ resp.err
              /\ Fail("Transport")
              /\ UNCHANGED output
           \/ /\ ~resp.err
              /\ resp.result = <<>>
              /\ Fail("FailedToCreateRule")
              /\ UNCHANGED output
           \/ /\ ~resp.err
              /\ resp.result # <<>>
              /\ output' = Append(output, "RuleCreated")
              /\ Succeed
    /\ UNCHANGED <<inputs, zone, create_locals, matched_rules, calls, rt,
                   shown_rules>>

----------------------------------------------------------------------------
(* The list command: handle_list_rules *)

ListedPriorities == {0, 3, 5}

\* the rules a ListRules answer can hold, with their optional priority
PrioritisedRules ==
    [id : RuleIds, matchers : {<<>>}, priority : OptionOf(ListedPriorities)]

ListRulesResponses ==
    {TransportError} \cup
    {Answer(r # <<>>, r) :
        r \in OptionOf(SeqsUpTo(PrioritisedRules, MaxRules))}

\* handle_list_rules up to the first await: list_zones is sent
handle_list_rules ==
    /\ pc = "idle"
    /\ cmd' = "list"
    /\ calls' = Append(calls, ListZones)
    /\ pc' = "zones"
    /\ UNCHANGED <<rule_identifier, matcher_arg, action_arg, name, priority,
                   zone, create_locals, matched_rules, responses, output,
                   result, error, rt, shown_rules>>

\* rule.priority.unwrap_or(0)
priority_key(rule) ==
    IF rule.priority = <<>> THEN 0 ELSE rule.priority[1]

\* the keys compared without Reverse
plain_le(a, b) == a <= b

\* Ord for Reverse: Reverse(a) <= Reverse(b) exactly if b <= a
reverse_le(a, b) == b <= a

\* one more element put into a sorted list, behind the elements that do not
\* sort after it: the sort is stable
insert_by_key(sorted, rule) ==
    LET n == Cardinality({i \in 1..Len(sorted) :
                 reverse_le(priority_key(sorted[i]), priority_key(rule))})
    IN  SubSeq(sorted, 1, n) \o <<rule>> \o SubSeq(sorted, n + 1, Len(sorted))

\* rules.sort_by_key(|rule| Reverse(rule.priority.unwrap_or(0)))
RECURSIVE sort_by_key(_)
sort_by_key(list) ==
    IF Len(list) = 0 THEN <<>>
    ELSE insert_by_key(sort_by_key(SubSeq(list, 1, Len(list) - 1)),
                       list[Len(list)])

\* the answer to list_email_routing_rules arrives in handle_list_rules
handle_list_rules_rules ==
    /\ pc = "rules"
    /\ cmd = "list"
    /\ \E resp \in ListRulesResponses :
        /\ responses' = Append(responses, resp)
        /\ \/ /\ resp.err
              /\ Fail("Transport")
              /\ UNCHANGED <<output, shown_rules>>
           \/ /\ ~resp.err
              /\ resp.result = <<>>
              /\ Fail("FailedToListRules")
              /\ UNCHANGED <<output, shown_rules>>
           \/ /\ ~resp.err
              /\ resp.result # <<>>
              /\ Len(resp.result[1]) = 0
              /\ output' = Append(output, "NoRulesFound")
              /\ Succeed
              /\ UNCHANGED shown_rules
           \/ /\ ~resp.err
              /\ resp.result # <<>>
              /\ Len(resp.result[1]) > 0
              /\ output' = Append(output, "Rules")
              /\ shown_rules' = sort_by_key(resp.result[1])
              /\ Succeed
    /\ UNCHANGED <<inputs, zone, create_locals, matched_rules, calls, rt>>

----------------------------------------------------------------------------
(* The program *)

Next ==
    \/ create_cf_client_from_config_fails
    \/ handle_delete_rule
    \/ handle_create_rule
    \/ select_first_zone
    \/ handle_delete_rule_rules
    \/ handle_delete_rule_deleted
    \/ handle_create_rule_addresses
    \/ get_email_domain
    \/ handle_create_rule_created
    \/ handle_list_rules
    \/ handle_list_rules_rules

Spec == Init /\ [][Next]_vars

----------------------------------------------------------------------------
(* Rendering an action, parsing the text and rendering again *)

DestChars == {"d", "r", "o", "p"}

\* the actions free-text parsing can produce: Drop and one-destination Forward
RepresentableActions ==
    {Drop} \cup {Forward(<<d>>) : d \in StringsUpTo(DestChars, MaxDestLen)}

RtInit ==
    /\ pc = "idle"
    /\ cmd = "none"
    /\ rule_identifier = <<>>
    /\ matcher_arg = <<>>
    /\ action_arg = <<>>
    /\ name = <<>>
    /\ priority = <<>>
    /\ zone = <<>>
    /\ action = <<>>
    /\ random_username = <<>>
    /\ matched_rules = <<>>
    /\ calls = <<>>
    /\ responses = <<>>
    /\ output = <<>>
    /\ result = "running"
    /\ error = ""
    /\ rt \in {[RtOff EXCEPT !.stage = "input", !.a = a] :
                  a \in RepresentableActions}
    /\ shown_rules = <<>>

command_vars == <<pc, cmd, rule_identifier, matcher_arg, action_arg, name,
                  priority, zone, action, random_username, matched_rules,
                  calls, responses, output, result, error, shown_rules>>

\* println!("{action}")
rt_render ==
    /\ rt.stage = "input"
    /\ rt' = [rt EXCEPT !.stage = "rendered", !.text = DisplayAction(rt.a)]
    /\ UNCHANGED command_vars

\* text.parse::<EmailRoutingRuleAction>()
rt_parse ==
    /\ rt.stage = "rendered"
    /\ rt' = [rt EXCEPT !.stage = "parsed", !.parsed = FromStrAction(rt.text)]
    /\ UNCHANGED command_vars

\* println!("{action}") of the parsed action
rt_render_again ==
    /\ rt.stage = "parsed"
    /\ rt' = [rt EXCEPT !.stage = "done", !.text2 = DisplayAction(rt.parsed)]
    /\ UNCHANGED command_vars

RtNext == rt_render \/ rt_parse \/ rt_render_again

SpecRoundTrip == RtInit /\ [][RtNext]_vars

----------------------------------------------------------------------------
(* The claims about the delete command *)

\* the indexes of the calls of one kind
CallsOf(op) == {i \in 1..Len(calls) : calls[i].op = op}

\* responses[i] answers calls[i]: the calls are made one after the other
Answered(i) == i <= Len(responses)

\* the list of rules came back with a result
RulesFetched ==
    /\ cmd = "delete"
    /\ Len(responses) >= 2
    /\ ~responses[2].err
    /\ responses[2].result # <<>>

FetchedRules == responses[2].result[1]

\* the folded fragment occurs in the folded candidate, character by character
FoldedSubstring(fragment, candidate) ==
    \E off \in 0..(Len(candidate) - Len(fragment)) :
        \A k \in 1..Len(fragment) :
            lower_char(fragment[k]) = lower_char(candidate[off + k])

\* the match of the specification: by id, or by the address of a literal
FuzzyMatch(fragment, rule) ==
    \/ FoldedSubstring(fragment, rule.id)
    \/ \E m \in 1..Len(rule.matchers) :
          /\ rule.matchers[m].type = "literal"
          /\ FoldedSubstring(fragment, rule.matchers[m].value)

\* the positions in the fetched list of the rules that match the fragment
MatchingPositions ==
    {i \in 1..Len(FetchedRules) : FuzzyMatch(rule_identifier, FetchedRules[i])}

Contains(seq, e) == \E i \in 1..Len(seq) : seq[i] = e

\* C1: in the delete command, when the rule list came back with a result and
\* the number of rules matching the fragment is not exactly one, no DeleteRule
\* call is issued
C1_NoDeleteUnlessUnique ==
    (RulesFetched /\ Cardinality(MatchingPositions) # 1)
        => CallsOf("DeleteRule") = {}

\* two rules with different ids match a fragment that is not empty, the
\* command is over and nothing was deleted
C1_Witness ==
    /\ RulesFetched
    /\ rule_identifier # <<>>
    /\ Cardinality(MatchingPositions) = 2
    /\ FetchedRules[1].id # FetchedRules[2].id
    /\ pc = "done"
    /\ CallsOf("DeleteRule") = {}

\* C2: when the rule list came back with a result and exactly one rule matches
\* the fragment, exactly one DeleteRule call is issued, for the selected zone,
\* with the id of that rule
C2_UniqueMatchDeleted ==
    (RulesFetched /\ Cardinality(MatchingPositions) = 1)
        => /\ Cardinality(CallsOf("DeleteRule")) = 1
           /\ \A c \in CallsOf("DeleteRule") :
                 /\ calls[c].target = zone[1].id
                 /\ \A i \in MatchingPositions :
                       calls[c].arg = FetchedRules[i].id

\* one of two rules matches, by its address, and the fragment is not its id
C2_Witness ==
    /\ RulesFetched
    /\ Len(FetchedRules) = 2
    /\ FetchedRules[1].id # FetchedRules[2].id
    /\ Cardinality(MatchingPositions) = 1
    /\ \A i \in MatchingPositions : FetchedRules[i].id # rule_identifier
    /\ Cardinality(CallsOf("DeleteRule")) = 1

\* C3: with zero matches or with two or more matches the command reports the
\* outcome and ends with a success result, never with an error
C3_UnresolvedIsReported ==
    (RulesFetched /\ Cardinality(MatchingPositions) # 1)
        => /\ pc = "done"
           /\ result = "ok"
           /\ error = ""
           /\ Cardinality(MatchingPositions) = 0
                 => Contains(output, "NoRulesFound")
           /\ Cardinality(MatchingPositions) > 1
                 => Contains(output, "MultipleRulesFound")

\* no rule of a non-empty list matches and the command ended with Ok
C3_Witness ==
    /\ RulesFetched
    /\ Len(FetchedRules) > 0
    /\ Cardinality(MatchingPositions) = 0
    /\ result = "ok"

\* the ListRules call completed and carries no result
RulesNotFetched ==
    /\ cmd = "delete"
    /\ Len(responses) >= 2
    /\ ~responses[2].err
    /\ responses[2].result = <<>>

\* C4: if the ListRules call completes without a result, the command does not
\* fail and resolves nothing: it issues one DeleteRule call whose rule id is
\* the user's fragment, unchanged
C4_FallbackToLiteralId ==
    RulesNotFetched
        => /\ Cardinality(CallsOf("DeleteRule")) = 1
           /\ \A c \in CallsOf("DeleteRule") :
                 /\ calls[c].arg = rule_identifier
                 /\ calls[c].target = zone[1].id
           /\ matched_rules = <<>>
           /\ ~Contains(output, "FoundRule")
           /\ Len(responses) = 2 => (pc = "delete" /\ result = "running")

\* the fallback was taken with a fragment that has an upper-case letter
C4_Witness ==
    /\ RulesNotFetched
    /\ Contains(rule_identifier, "X")
    /\ pc = "delete"
    /\ Cardinality(CallsOf("DeleteRule")) = 1

\* the DeleteRule call was answered
DeleteAnswered ==
    /\ cmd = "delete"
    /\ CallsOf("DeleteRule") # {}
    /\ Len(responses) = Len(calls)
    /\ ~responses[Len(responses)].err

\* C5: after a DeleteRule call the provider's success flag decides: true ends
\* the command with "deleted successfully", false ends it with the error of a
\* failed deletion and is never reported as a deletion
C5_SuccessFlagSurfaced ==
    DeleteAnswered
        => LET resp == responses[Len(responses)]
           IN  /\ pc = "done"
               /\ resp.success
                     => /\ result = "ok"
                        /\ output[Len(output)] = "RuleDeletedSuccessfully"
               /\ ~resp.success
                     => /\ result = "err"
                        /\ error = "FailedToDeleteRule"
                        /\ ~Contains(output, "RuleDeletedSuccessfully")

\* the provider answered success = false together with a result
C5_Witness ==
    /\ DeleteAnswered
    /\ ~responses[Len(responses)].success
    /\ responses[Len(responses)].result # <<>>
    /\ result = "err"

\* C6: a fetched rule is among the matched rules exactly if the lower-cased
\* fragment is a substring of its lower-cased id or of the lower-cased address
\* of one of its literal matchers; a match-all matcher contributes nothing
C6_FuzzyMatchIsFoldedSubstring ==
    RulesFetched
        => /\ \A i \in 1..Len(FetchedRules) :
                 Contains(matched_rules, FetchedRules[i])
                     <=> FuzzyMatch(rule_identifier, FetchedRules[i])
           /\ \A j \in 1..Len(matched_rules) :
                 Contains(FetchedRules, matched_rules[j])

\* a rule matched through case folding only, next to a catch-all rule that
\* did not match
C6_Witness ==
    /\ RulesFetched
    /\ \E i \in 1..Len(FetchedRules) :
          /\ Contains(matched_rules, FetchedRules[i])
          /\ ~contains(FetchedRules[i].id, rule_identifier)
          /\ \A m \in 1..Len(FetchedRules[i].matchers) :
                ~contains(FetchedRules[i].matchers[m].value, rule_identifier)
    /\ \E i \in 1..Len(FetchedRules) :
          /\ ~Contains(matched_rules, FetchedRules[i])
          /\ Contains(FetchedRules[i].matchers, All)

----------------------------------------------------------------------------
(* The claim about rendering and parsing *)

ForwardTo == <<"F", "o", "r", "w", "a", "r", "d", " ", "t", "o", " ">>

\* C7, as stated: for Drop and for a Forward with one destination, rendering,
\* parsing the rendered text and rendering again gives the first rendering
C7_RoundTripAsStated ==
    rt.stage = "done" => rt.text2 = rt.text

\* C7, amended: rendering, parsing the rendered text and rendering again gives
\* "Forward to " followed by the first rendering, the parser taking every text
\* but "drop" in lower case for a destination
C7_RoundTripPrefixes ==
    rt.stage = "done"
        => /\ rt.parsed = Forward(<<rt.text>>)
           /\ rt.text2 = ForwardTo \o rt.text

\* Drop went through the round trip and came out as "Forward to Drop"
C7_Witness ==
    /\ rt.stage = "done"
    /\ rt.a = Drop
    /\ rt.text2 = ForwardTo \o <<"D", "r", "o", "p">>

----------------------------------------------------------------------------
(* The claims about the create command *)

HasAt(s) == \E k \in 1..Len(s) : s[k] = "@"

\* the matcher of the request of the CreateRule call c
SentMatchers(c) == calls[c].arg.matchers

\* the action of the request of the CreateRule call c
SentActions(c) == calls[c].arg.actions

\* the name field of the answer to the GetRoutingSettings call
SettingsName ==
    LET g == CHOOSE i \in CallsOf("GetRoutingSettings") : TRUE
    IN  responses[g].result[1].name

\* the supplied matcher is a literal without "@"
BareLocalPart ==
    /\ matcher_arg # <<>>
    /\ matcher_arg[1].type = "literal"
    /\ ~HasAt(matcher_arg[1].value)

\* C8: a supplied MatchAll and a supplied literal with "@" are sent unchanged;
\* a supplied literal without "@" is sent as "<local-part>@<domain>", the
\* domain being the name of the zone's GetRoutingSettings result, and
\* GetRoutingSettings is called in this last case only
C8_MatcherResolution ==
    (cmd = "create" /\ matcher_arg # <<>>)
        => /\ ~BareLocalPart
                 => /\ CallsOf("GetRoutingSettings") = {}
                    /\ \A c \in CallsOf("CreateRule") :
                          SentMatchers(c) = matcher_arg
           /\ BareLocalPart
                 => /\ \A g \in CallsOf("GetRoutingSettings") :
                          calls[g].target = zone[1].id
                    /\ \A c \in CallsOf("CreateRule") :
                          /\ Cardinality(CallsOf("GetRoutingSettings")) = 1
                          /\ SentMatchers(c) =
                                <<Literal(matcher_arg[1].value \o <<"@">>
                                              \o SettingsName)>>

\* the bare local part "bob" was completed with the domain and sent
C8_Witness ==
    /\ cmd = "create"
    /\ BareLocalPart
    /\ \E c \in CallsOf("CreateRule") :
          SentMatchers(c) =
              <<Literal(<<"b", "o", "b", "@", "x", ".", "c">>)>>

\* the addresses of the answer to the ListDestinationAddresses call
ListedAddresses ==
    LET a == CHOOSE i \in CallsOf("ListDestinationAddresses") : TRUE
    IN  responses[a].result[1]

\* the ListDestinationAddresses call came back with a result
AddressesListed ==
    /\ cmd = "create"
    /\ \E a \in CallsOf("ListDestinationAddresses") :
          /\ Answered(a)
          /\ ~responses[a].err
          /\ responses[a].result # <<>>

AlphabetChars == {UsernameAlphabet[i] : i \in 1..Len(UsernameAlphabet)}

\* every string of n characters of cs
StringsOfLen(cs, n) == {s \in StringsUpTo(cs, n) : Len(s) = n}

\* C10, as stated: with no matcher supplied the generated local part has the
\* full length, only characters of the alphabet, and every string of that
\* length over the alphabet, repeated characters included, can be generated;
\* the matcher sent is "<random>@<domain>"
C10_RandomLocalPart ==
    (cmd = "create" /\ random_username # <<>>)
        => /\ Len(random_username[1]) = UsernameLen
           /\ \A k \in 1..Len(random_username[1]) :
                 random_username[1][k] \in AlphabetChars
           /\ choose_multiple(UsernameAlphabet, UsernameLen)
                 = StringsOfLen(AlphabetChars, UsernameLen)
           /\ \A c \in CallsOf("CreateRule") :
                 SentMatchers(c) =
                     <<Literal(random_username[1] \o <<"@">> \o SettingsName)>>

----------------------------------------------------------------------------
(* The claim about the list command *)

\* the list of rules came back with a result in the list command
ListFetched ==
    /\ cmd = "list"
    /\ Len(responses) >= 2
    /\ ~responses[2].err
    /\ responses[2].result # <<>>

ListedRules == responses[2].result[1]

\* the priority of a rule, an absent one counting as 0
PriorityOrZero(rule) ==
    IF Len(rule.priority) = 0 THEN 0 ELSE rule.priority[1]

\* how often the rule r occurs in the list
Occurrences(list, r) == Cardinality({i \in 1..Len(list) : list[i] = r})

\* C11: the list command shows the fetched rules by priority descending, an
\* absent priority counting as 0: of two rules shown one after the other the
\* earlier has the priority greater than or equal to the later one's, and the
\* rules shown are a permutation of the rules fetched
C11_ListSortedDescending ==
    ListFetched
        => /\ \A i \in 1..(Len(shown_rules) - 1) :
                 PriorityOrZero(shown_rules[i])
                     >= PriorityOrZero(shown_rules[i + 1])
           /\ Len(shown_rules) = Len(ListedRules)
           /\ \A i \in 1..Len(ListedRules) :
                 Occurrences(shown_rules, ListedRules[i])
                     = Occurrences(ListedRules, ListedRules[i])

\* a rule without priority was fetched before a rule of priority 5 and is
\* shown after it
C11_Witness ==
    /\ ListFetched
    /\ Len(ListedRules) = 2
    /\ ListedRules[1].priority = <<>>
    /\ ListedRules[2].priority = <<5>>
    /\ shown_rules = <<ListedRules[2], ListedRules[1]>>

----------------------------------------------------------------------------
(* The claim about zone selection *)

\* the ListZones call of a command was answered
ZonesAnswered ==
    /\ cmd \in {"delete", "create", "list"}
    /\ Len(responses) >= 1
    /\ ~responses[1].err

\* the zones of the answer, none if the answer carries no result
AnsweredZones ==
    IF Len(responses[1].result) = 0 THEN <<>> ELSE responses[1].result[1]

\* C12: zone selection fails with the no-zone error when the zone list is
\* empty or the answer carries no result; on a non-empty list it selects the
\* last element, and every later provider call of the command uses that
\* zone's id, or its account's id for the destination addresses
C12_LastZoneSelected ==
    ZonesAnswered
        => IF Len(AnsweredZones) = 0 THEN
               /\ pc = "done"
               /\ result = "err"
               /\ error = "NoZoneFound"
               /\ zone = <<>>
               /\ Len(calls) = 1
           ELSE
               LET last == AnsweredZones[Len(AnsweredZones)]
               IN  /\ zone = <<last>>
                   /\ Contains(output, "SelectedZone")
                   /\ Len(calls) >= 2
                   /\ \A i \in 2..Len(calls) :
                         calls[i].target =
                             IF calls[i].op = "ListDestinationAddresses"
                             THEN last.account.id
                             ELSE last.id

\* two different zones were listed and three calls were made for the second
C12_Witness ==
    /\ ZonesAnswered
    /\ Len(AnsweredZones) = 2
    /\ AnsweredZones[1] # AnsweredZones[2]
    /\ Len(calls) = 4
    /\ calls[2].op = "ListDestinationAddresses"
    /\ calls[4].target = AnsweredZones[2].id

----------------------------------------------------------------------------
(* The claim about the order of the calls of the create command *)

\* the matcher has to be completed with the zone's domain
DomainNeeded == matcher_arg = <<>> \/ BareLocalPart

\* the calls of a create command that runs to its end
ExpectedCalls ==
    <<"ListZones">>
        \o (IF action_arg = <<>> THEN <<"ListDestinationAddresses">>
            ELSE <<>>)
        \o (IF DomainNeeded THEN <<"GetRoutingSettings">> ELSE <<>>)
        \o <<"CreateRule">>

\* the call failed or its answer lacks the result
FailedAnswer(i) == responses[i].err \/ responses[i].result = <<>>

\* C13: the create command calls ListZones, ListDestinationAddresses (only
\* without a supplied action), GetRoutingSettings (only if the matcher needs
\* the domain) and CreateRule in this order, one call at a time; a failed
\* call or an absent result ends the command in error with no later call, and
\* CreateRule is not issued after a resolution step failed
C13_CreateCallsInOrder ==
    (cmd = "create" /\ Len(calls) >= 1)
        => /\ Len(calls) <= Len(ExpectedCalls)
           /\ \A i \in 1..Len(calls) : calls[i].op = ExpectedCalls[i]
           /\ Len(responses) <= Len(calls)
           /\ Len(calls) <= Len(responses) + 1
           /\ \A i \in 1..Len(responses) :
                 FailedAnswer(i)
                     => /\ pc = "done"
                        /\ result = "err"
                        /\ Len(calls) = i
           /\ result = "err"
                 => /\ Len(calls) = Len(responses)
                    /\ \/ CallsOf("CreateRule") = {}
                       \/ FailedAnswer(Len(responses))
           /\ result = "ok"
                 => /\ Len(calls) = Len(ExpectedCalls)
                    /\ Len(responses) = Len(calls)

\* the addresses were listed, then the routing settings came back without a
\* result: the command ended in error and no rule was sent
C13_Witness ==
    /\ cmd = "create"
    /\ Len(calls) = 3
    /\ calls[2].op = "ListDestinationAddresses"
    /\ calls[3].op = "GetRoutingSettings"
    /\ Len(responses) = 3
    /\ ~responses[3].err
    /\ responses[3].result = <<>>
    /\ result = "err"
    /\ CallsOf("CreateRule") = {}

====
